---- MODULE Spec2Model ----
(***************************************************************************)
(* The TDMS metadata decoder of src/src/tdms_reader.rs as a state machine. *)
(*                                                                         *)
(* One behaviour is one call of read_metadata on one byte source.  The     *)
(* source is a finite file whose content is disclosed read by read: a read *)
(* of bytes not seen before draws them from the source class chosen in     *)
(* Init (source), or finds the end of the file; a read of bytes seen       *)
(* before yields them again.  file keeps the fields the source has         *)
(* yielded, by offset; highWater is the length the file is known to have,  *)
(* ended whether a read has found its end, and where.                      *)
(*                                                                         *)
(* u64 values are kept at a reduced width of U64Bits bits (TLC integers    *)
(* are 32-bit); u64 arithmetic of the code is arithmetic modulo U64Mod.    *)
(* The 32-bit raw data index header is kept as its two 16-bit halves       *)
(* <<high, low>>, so that the four sentinels keep their exact values.      *)
(***************************************************************************)
EXTENDS Integers, Sequences, FiniteSets, TLC

\* ---------------------------------------------------------------- bounds
\* Width of a u64 in the model.
U64Bits == 9
\* The file holds at most this many segments.
MaxSegments == 3
\* The file holds at most this many object declarations.
MaxDeclarations == 3
\* The file holds at most this many properties.
MaxProperties == 2
\* Number of set_raw_data_index calls in the cache-only specification.
MaxCalls == 3
\* Largest object id in the cache-only specification.
MaxObjectId == 3

U64Mod == 2 ^ U64Bits

Max(a, b) == IF a >= b THEN a ELSE b

Last(s) == s[Len(s)]

\* ------------------------------------------------------- program constants
RAW_DATA_INDEX_NO_DATA == <<65535, 65535>>
RAW_DATA_INDEX_MATCHES_PREVIOUS == <<0, 0>>
FORMAT_CHANGING_SCALER == <<0, 4713>>
DIGITAL_LINE_SCALER == <<0, 4714>>

\* let expected_header = [0x54, 0x44, 0x53, 0x6d];
expected_header == <<84, 68, 83, 109>>

\* let lead_in_length = 28;
lead_in_length == 28

\* Option<T>: None, or Some(x) as the one-element sequence <<x>>.
None == <<>>

Some(x) == <<x>>

\* --------------------------------------------- types.rs, toc.rs, error.rs
\* TdsType::from_u32: the type registry.  Code 3 is a 4-byte integer, 10 an
\* 8-byte float, 32 the string type, 0 a tag without a width that is not the
\* string type; any other code is an UnknownType error.
TdsTypeFromU32(code) ==
    CASE code = 3 -> Some("I32")
      [] code = 10 -> Some("DoubleFloat")
      [] code = 32 -> Some("String")
      [] code = 0 -> Some("Void")
      [] OTHER -> None

\* TdsType::size: Some(width in bytes) of a fixed-width type, None otherwise.
TdsTypeSize(type) ==
    CASE type = "I32" -> Some(4)
      [] type = "DoubleFloat" -> Some(8)
      [] OTHER -> None

\* TocMask::has_flag on the set of flags TocMask::from_flags decoded.
HasFlag(mask, flag) == flag \in mask

\* The width in bytes of the reads of LittleEndianReader.
U32Width == 4

U64Width == 8

\* read_string: a u32 byte length, then that many bytes.
StringWidth(s) == U32Width + Len(s)

\* TdmsProperty::read: a name string, a u32 type tag and the value (an i32).
PropertyWidth(p) == StringWidth(p.name) + U32Width + U32Width


\* ------------------------------------------------------------ the source
\* The lead-in offset for which position + 28 + offset is position + 2^64.
WrapOffset == U64Mod - lead_in_length

\* A next segment offset past the metadata of the segments drawn here.
FarOffset == U32Width + 40 * MaxDeclarations

MetaNew == {"MetaData", "NewObjList"}

\* A raw data index header that is no sentinel: the length of the index.
InlineHeader == <<0, 20>>

\* The number_of_values whose product with a width of 4 or 8 is 2^64.
HugeCount == U64Mod \div 4

\* Source classes: the values each field of the file is drawn from.
\* Lead-ins of every kind, around at most one object without data.
LeadInSource ==
    [tocs |-> {MetaNew, {"MetaData"}, {"NewObjList"}, MetaNew \cup {"BigEndian"}},
     nsos |-> {4, 17, WrapOffset},
     rdos |-> {4, WrapOffset},
     counts |-> {0, 1},
     paths |-> {"/"},
     headers |-> {RAW_DATA_INDEX_NO_DATA},
     types |-> {3},
     dims |-> {1},
     nvals |-> {1},
     sizes |-> {0},
     propcounts |-> {0},
     props |-> {}]

\* Object declarations of every kind for two paths, one shape.
ObjectSource ==
    [tocs |-> {MetaNew},
     nsos |-> {FarOffset},
     rdos |-> {FarOffset},
     counts |-> 0 .. MaxDeclarations,
     paths |-> {"/a", "/b"},
     headers |-> {RAW_DATA_INDEX_NO_DATA, RAW_DATA_INDEX_MATCHES_PREVIOUS,
                  FORMAT_CHANGING_SCALER, DIGITAL_LINE_SCALER, InlineHeader},
     types |-> {3},
     dims |-> {1},
     nvals |-> {2},
     sizes |-> {0},
     propcounts |-> {0},
     props |-> {}]

\* Inline shapes of every kind for one path.
ShapeSource ==
    [tocs |-> {MetaNew},
     nsos |-> {FarOffset},
     rdos |-> {FarOffset},
     counts |-> {1},
     paths |-> {"/a"},
     headers |-> {RAW_DATA_INDEX_MATCHES_PREVIOUS, InlineHeader},
     types |-> {0, 3, 10, 32, 99},
     dims |-> {1, 2},
     nvals |-> {0, 3, HugeCount},
     sizes |-> {0, 5},
     propcounts |-> {0},
     props |-> {}]

\* Properties of two names for two paths without data.
PropertySource ==
    [tocs |-> {MetaNew},
     nsos |-> {FarOffset},
     rdos |-> {FarOffset},
     counts |-> {1},
     paths |-> {"/a", "/b"},
     headers |-> {RAW_DATA_INDEX_NO_DATA},
     types |-> {3},
     dims |-> {1},
     nvals |-> {1},
     sizes |-> {0},
     propcounts |-> 0 .. MaxProperties,
     props |-> {[name |-> "p", value |-> 1], [name |-> "q", value |-> 2]}]

Sources ==
    [leadin |-> LeadInSource, object |-> ObjectSource, shape |-> ShapeSource,
     property |-> PropertySource]

\* The byte source, then the TdmsReader, the control state and the locals
\* of each function.
VARIABLES source, file, cursor, highWater, ended, overflow_checks,
    \* TdmsReader
    properties, object_paths, data_indexes, prev_raw_data_indexes, segments,
    \* control
    pc, result,
    \* read_segment
    position, header_bytes, toc_mask, next_segment_offset, raw_data_offset,
    next_segment_position, raw_data_position,
    \* read_object_metadata
    objects_left, segment_objects, object_id, properties_left,
    \* read_raw_data_index
    data_type, dimension, number_of_values,
    \* every set_raw_data_index call so far, as <<object, raw_data_index>>
    setLog

srcVars == <<source, file, cursor, highWater, ended>>

readerVars == <<properties, object_paths, data_indexes, prev_raw_data_indexes, segments>>

segLocals == <<position, header_bytes, toc_mask, next_segment_offset, raw_data_offset,
               next_segment_position, raw_data_position>>

objLocals == <<objects_left, segment_objects, object_id, properties_left>>

idxLocals == <<data_type, dimension, number_of_values>>

vars == <<srcVars, overflow_checks, readerVars, pc, result, segLocals, objLocals,
          idxLocals, setLog>>

dom == Sources[source]

\* --------------------------------------------------------- object_path.rs
\* ObjectPathCache::get_or_create_id: the id of a known path, or the next
\* sequential id for a new one.  Ids count from 0 in first-seen order;
\* object_paths is the list of paths by id.
KnownPath(paths, path) == \E i \in 1 .. Len(paths) : paths[i] = path

PathId(paths, path) ==
    IF KnownPath(paths, path)
    THEN (CHOOSE i \in 1 .. Len(paths) : paths[i] = path) - 1
    ELSE Len(paths)

WithPath(paths, path) ==
    IF KnownPath(paths, path) THEN paths ELSE Append(paths, path)

\* ------------------------------------------------------ RawDataIndexCache
\* self.prev_raw_data_indexes[index] = value: a panic when out of range.
VecSet(vec, index, value) ==
    IF index < Len(vec)
    THEN [panic |-> FALSE, vec |-> [vec EXCEPT ![index + 1] = value]]
    ELSE [panic |-> TRUE, vec |-> vec]

\* set_raw_data_index with `index > len` for `index >= len`.
SetRawDataIndexPastEnd(cache, object, raw_data_index) ==
    LET index == object
    IN  IF index > Len(cache)
        THEN LET padding_length == index - Len(cache)
             IN  [panic |-> FALSE,
                  vec |-> cache \o [i \in 1 .. padding_length |-> None]
                                \o <<Some(raw_data_index)>>]
        ELSE VecSet(cache, index, Some(raw_data_index))

\* RawDataIndexCache::set_raw_data_index
SetRawDataIndex(cache, object, raw_data_index) ==
    LET index == object
    IN  IF index >= Len(cache)
        THEN LET padding_length == index - Len(cache)
             IN  [panic |-> FALSE,
                  vec |-> cache \o [i \in 1 .. padding_length |-> None]
                                \o <<Some(raw_data_index)>>]
        ELSE VecSet(cache, index, Some(raw_data_index))

\* get_raw_data_index indexing the backing store from 1.
GetRawDataIndexFromOne(cache, object) ==
    IF object >= 1 /\ object <= Len(cache) THEN cache[object] ELSE None

\* RawDataIndexCache::get_raw_data_index
GetRawDataIndex(cache, object) ==
    IF object < Len(cache) THEN cache[object + 1] ELSE None

\* ------------------------------------------------------------ TdmsReader
\* Ids counted from one in place of from zero.
AllocIdFromOne(arena) == Len(arena) + 1

\* Arena::alloc: the new record's id is its index in the arena.
AllocId(arena) == Len(arena)

\* A table that keeps one record for equal shapes.
AllocShared(arena, record) ==
    IF \E i \in 1 .. Len(arena) : arena[i] = record THEN arena ELSE Append(arena, record)

Alloc(arena, record) == Append(arena, record)

\* no_data carrying the object's cached raw data index.
NoDataAsPrevious(object) ==
    [object_id |-> object,
     raw_data_index |-> IF object < Len(prev_raw_data_indexes)
                        THEN prev_raw_data_indexes[object + 1]
                        ELSE None]

\* SegmentObject::no_data
NoData(object) == [object_id |-> object, raw_data_index |-> None]

\* SegmentObject::with_data
WithData(object, raw_data_index) ==
    [object_id |-> object, raw_data_index |-> Some(raw_data_index)]

\* The objects in the order of a stack, last declared first.
NewSegmentReversed(data_position, next_position, objects) ==
    [data_position |-> data_position, next_segment_position |-> next_position,
     objects |-> [i \in 1 .. Len(objects) |-> objects[Len(objects) + 1 - i]]]

\* TdmsSegment::new
NewSegment(data_position, next_position, objects) ==
    [data_position |-> data_position, next_segment_position |-> next_position,
     objects |-> objects]

\* self.properties.insert(object_id, vec![property]) in place of entry/push.
PushPropertyReplacing(props, object, property) == (object :> <<property>>) @@ props

\* self.properties.entry(object_id).or_insert_with(|| Vec::new()).push(property)
PushProperty(props, object, property) ==
    IF object \in DOMAIN props
    THEN [props EXCEPT ![object] = Append(@, property)]
    ELSE (object :> <<property>>) @@ props

\* a + b in u64: the sum and whether it overflowed.
Overflows(a, b) == a + b >= U64Mod

WrappingAdd(a, b) == (a + b) % U64Mod

\* let next_segment_position = position + lead_in_length + next_segment_offset;
NextSegmentPosition(pos, offset) ==
    WrappingAdd(WrappingAdd(pos, lead_in_length), offset)

\* let raw_data_position = position + lead_in_length + raw_data_offset;
RawDataPosition(pos, offset) ==
    WrappingAdd(WrappingAdd(pos, lead_in_length), offset)

PositionOverflows(pos, offset) ==
    \/ Overflows(pos, lead_in_length)
    \/ Overflows(WrappingAdd(pos, lead_in_length), offset)

\* (type_size as u64) * number_of_values
DataSize(type_size, count) == (type_size * count) % U64Mod

DataSizeOverflows(type_size, count) == type_size * count >= U64Mod

\* TdmsReader::new
NewReader ==
    [properties |-> <<>>, object_paths |-> <<>>, data_indexes |-> <<>>,
     prev_raw_data_indexes |-> <<>>, segments |-> <<>>]

ThisReader ==
    [properties |-> properties, object_paths |-> object_paths,
     data_indexes |-> data_indexes,
     prev_raw_data_indexes |-> prev_raw_data_indexes, segments |-> segments]

\* read_metadata ignoring the outcome of read_segments.
ReadMetadataAnyway(outcome, reader) == [kind |-> "Ok", reader |-> reader]

\* read_metadata: what the caller gets from the outcome of read_segments.
ReadMetadata(outcome, reader) ==
    IF outcome.kind = "Ok"
    THEN [kind |-> "Ok", reader |-> reader]
    ELSE [kind |-> "Err", error |-> outcome.error]

Pending == [kind |-> "Pending"]

\* A panic unwinds through read_metadata: the caller gets no value.
Panicked(why) == [kind |-> "Panic", why |-> why]

\* The state before read_metadata starts: nothing read, TdmsReader::new().
Fresh ==
    /\ file = <<>>
    /\ cursor = 0
    /\ highWater = 0
    /\ ended = "no"
    /\ overflow_checks = "either"
    /\ properties = NewReader.properties
    /\ object_paths = NewReader.object_paths
    /\ data_indexes = NewReader.data_indexes
    /\ prev_raw_data_indexes = NewReader.prev_raw_data_indexes
    /\ segments = NewReader.segments
    /\ result = Pending
    /\ position = 0
    /\ header_bytes = <<>>
    /\ toc_mask = {}
    /\ next_segment_offset = 0
    /\ raw_data_offset = 0
    /\ next_segment_position = 0
    /\ raw_data_position = 0
    /\ objects_left = 0
    /\ segment_objects = <<>>
    /\ object_id = 0
    /\ properties_left = 0
    /\ data_type = "Void"
    /\ dimension = 0
    /\ number_of_values = 0
    /\ setLog = <<>>

Init ==
    /\ source \in DOMAIN Sources
    /\ pc = "read_segments"
    /\ Fresh

\* ------------------------------------------------------------- the reads
FieldsOf(what) == {at \in DOMAIN file : file[at].what = what}

\* The source yields the w bytes of value v at the cursor: new bytes past what
\* was seen of the file, or the field seen at this offset before.
Yield(what, w, v) ==
    /\ cursor + w < U64Mod
    /\ IF cursor \in DOMAIN file
       THEN /\ file[cursor].what = what
            /\ file[cursor].val = v
            /\ UNCHANGED file
       ELSE /\ cursor >= highWater
            /\ file' = (cursor :> [what |-> what, val |-> v]) @@ file
    /\ cursor' = cursor + w
    /\ highWater' = Max(highWater, cursor + w)
    /\ UNCHANGED <<source, ended>>

\* The file ends before the w bytes at the cursor are complete: it is at least
\* as long as what has been read of it and shorter than cursor + w.  How many
\* bytes short it is does not reach the decoder, and the model leaves it open.
EndOfFile(w, where) ==
    /\ ended = "no"
    /\ cursor + w > highWater
    /\ ended' = where
    /\ UNCHANGED <<source, file, cursor, highWater>>

\* A failing step of the decode: the error goes up through every `?` and
\* read_segments to read_metadata.
Fail(error) ==
    /\ pc' = "done"
    /\ result' = ReadMetadata([kind |-> "Err", error |-> error], ThisReader)

\* A read_exact of LittleEndianReader that finds too few bytes.
Truncated(w) ==
    /\ EndOfFile(w, "inside a segment")
    /\ Fail([kind |-> "TruncatedInput"])

Panic(why) ==
    /\ pc' = "done"
    /\ result' = Panicked(why)

\* u64 arithmetic that overflows panics in a build with overflow checks and
\* wraps in a build without; the build is the same for the whole decode.
Builds == IF overflow_checks = "either" THEN {"on", "off"} ELSE {overflow_checks}

\* ---------------------------------------------------------- read_segments
\* let position = reader.seek(SeekFrom::Current(0))?; then read_segment.
SegmentStart ==
    /\ pc = "read_segments"
    /\ position' = cursor
    /\ header_bytes' = <<>>
    /\ pc' = "magic"
    /\ UNCHANGED <<srcVars, overflow_checks, readerVars, result, toc_mask,
                   next_segment_offset, raw_data_offset, next_segment_position,
                   raw_data_position, objLocals, idxLocals, setLog>>

\* One reader.read of the magic loop returning n > 0 bytes: the next n bytes of
\* the signature, or of four bytes that differ from it in the first.
MagicBytes(n, good) ==
    [i \in 1 .. n |->
        IF good \/ Len(header_bytes) + i > 1
        THEN expected_header[Len(header_bytes) + i]
        ELSE 0]

\* The magic bytes the file was seen to hold at the segment's position.
SeenMagic ==
    IF position \in FieldsOf("magic") THEN file[position].val ELSE <<>>

\* while bytes_read < 4 { match reader.read(&mut header_bytes[bytes_read..])? {
\*     0 => return Ok(None), n => bytes_read += n } }: a read of n > 0 bytes.
ReadMagic ==
    /\ pc = "magic"
    /\ Len(header_bytes) < 4
    /\ Len(segments) < MaxSegments
    /\ \E n \in 1 .. (4 - Len(header_bytes)) :
          /\ cursor + n < U64Mod
          /\ \/ \* bytes of a segment not seen before
                /\ cursor >= highWater
                /\ SeenMagic = header_bytes
                /\ \E good \in IF header_bytes = <<>> THEN BOOLEAN ELSE {TRUE} :
                      /\ header_bytes' = header_bytes \o MagicBytes(n, good)
                      /\ file' = (position :> [what |-> "magic", val |-> header_bytes'])
                                    @@ [at \in DOMAIN file \ {position} |-> file[at]]
             \/ \* the magic seen at this position before
                /\ Len(SeenMagic) >= Len(header_bytes) + n
                /\ cursor < highWater
                /\ header_bytes' = header_bytes
                      \o SubSeq(SeenMagic, Len(header_bytes) + 1, Len(header_bytes) + n)
                /\ UNCHANGED file
             \/ \* bytes seen before as part of other fields: none of the values
                \* drawn here holds the signature
                /\ SeenMagic = <<>>
                /\ cursor < highWater \/ header_bytes # <<>>
                /\ header_bytes' = header_bytes \o MagicBytes(n, FALSE)
                /\ UNCHANGED file
          /\ cursor' = cursor + n
          /\ highWater' = Max(highWater, cursor + n)
    /\ UNCHANGED <<source, ended, overflow_checks, readerVars, pc, result, position,
                   toc_mask, next_segment_offset, raw_data_offset,
                   next_segment_position, raw_data_position, objLocals, idxLocals,
                   setLog>>

\* reader.read returns 0: `0 => return Ok(None)`, the loop of read_segments
\* breaks, read_segments returns Ok(()) and read_metadata Ok(tdms_reader).
ReadMagicZero ==
    /\ pc = "magic"
    /\ Len(header_bytes) < 4
    /\ EndOfFile(1, IF header_bytes = <<>>
                     THEN "at a segment boundary"
                     ELSE "inside a segment")
    /\ pc' = "done"
    /\ result' = ReadMetadata([kind |-> "Ok"], ThisReader)
    /\ UNCHANGED <<overflow_checks, readerVars, segLocals, objLocals, idxLocals, setLog>>

\* The error reporting where the magic ends in place of where it starts.
SegmentHeaderErrorAtCursor(pos, bytes) ==
    [kind |-> "InvalidSegmentHeader", position |-> pos + Len(bytes), header_bytes |-> bytes]

\* "Invalid segment header at position {}: {:?}", position, header_bytes
SegmentHeaderError(pos, bytes) ==
    [kind |-> "InvalidSegmentHeader", position |-> pos, header_bytes |-> bytes]

\* if header_bytes != expected_header { return Err(...) }
CheckHeader ==
    /\ pc = "magic"
    /\ Len(header_bytes) = 4
    /\ IF header_bytes # expected_header
       THEN Fail(SegmentHeaderError(position, header_bytes))
       ELSE pc' = "toc_mask" /\ UNCHANGED result
    /\ UNCHANGED <<srcVars, overflow_checks, readerVars, segLocals, objLocals,
                   idxLocals, setLog>>

\* let toc_mask = TocMask::from_flags(type_reader.read_uint32()?);
ReadTocMask ==
    /\ pc = "toc_mask"
    /\ \/ \E toc \in dom.tocs :
             /\ Yield("toc_mask", U32Width, toc)
             /\ toc_mask' = toc
             /\ pc' = "version"
             /\ UNCHANGED result
       \/ Truncated(U32Width) /\ UNCHANGED toc_mask
    /\ UNCHANGED <<overflow_checks, readerVars, position, header_bytes,
                   next_segment_offset, raw_data_offset, next_segment_position,
                   raw_data_position, objLocals, idxLocals, setLog>>

\* let version = type_reader.read_int32()?;
ReadVersion ==
    /\ pc = "version"
    /\ \/ /\ Yield("version", U32Width, 4713)
          /\ pc' = "next_segment_offset"
          /\ UNCHANGED result
       \/ Truncated(U32Width)
    /\ UNCHANGED <<overflow_checks, readerVars, segLocals, objLocals, idxLocals, setLog>>

\* let next_segment_offset = type_reader.read_uint64()?;
ReadNextSegmentOffset ==
    /\ pc = "next_segment_offset"
    /\ \/ \E v \in dom.nsos :
             /\ Yield("next_segment_offset", U64Width, v)
             /\ next_segment_offset' = v
             /\ pc' = "raw_data_offset"
             /\ UNCHANGED result
       \/ Truncated(U64Width) /\ UNCHANGED next_segment_offset
    /\ UNCHANGED <<overflow_checks, readerVars, position, header_bytes, toc_mask,
                   raw_data_offset, next_segment_position, raw_data_position,
                   objLocals, idxLocals, setLog>>

\* let raw_data_offset = type_reader.read_uint64()?;
ReadRawDataOffset ==
    /\ pc = "raw_data_offset"
    /\ \/ \E v \in dom.rdos :
             /\ Yield("raw_data_offset", U64Width, v)
             /\ raw_data_offset' = v
             /\ pc' = "positions"
             /\ UNCHANGED result
       \/ Truncated(U64Width) /\ UNCHANGED raw_data_offset
    /\ UNCHANGED <<overflow_checks, readerVars, position, header_bytes, toc_mask,
                   next_segment_offset, next_segment_position, raw_data_position,
                   objLocals, idxLocals, setLog>>

\* let next_segment_position = position + lead_in_length + next_segment_offset;
\* let raw_data_position = position + lead_in_length + raw_data_offset;
ComputePositions ==
    /\ pc = "positions"
    /\ IF \/ PositionOverflows(position, next_segment_offset)
          \/ PositionOverflows(position, raw_data_offset)
       THEN \E build \in Builds :
               /\ overflow_checks' = build
               /\ IF build = "on"
                  THEN /\ Panic("attempt to add with overflow")
                       /\ UNCHANGED <<next_segment_position, raw_data_position>>
                  ELSE /\ next_segment_position' =
                             NextSegmentPosition(position, next_segment_offset)
                       /\ raw_data_position' = RawDataPosition(position, raw_data_offset)
                       /\ pc' = "metadata"
                       /\ UNCHANGED result
       ELSE /\ next_segment_position' = NextSegmentPosition(position, next_segment_offset)
            /\ raw_data_position' = RawDataPosition(position, raw_data_offset)
            /\ pc' = "metadata"
            /\ UNCHANGED <<result, overflow_checks>>
    /\ UNCHANGED <<srcVars, readerVars, position, header_bytes, toc_mask,
                   next_segment_offset, raw_data_offset, objLocals, idxLocals, setLog>>

\* if toc_mask.has_flag(TocFlag::MetaData) { self.read_object_metadata(..)? }
\* else { unimplemented!() }; in read_object_metadata:
\* if !toc_mask.has_flag(TocFlag::NewObjList) { unimplemented!() }
CheckTocMask ==
    /\ pc = "metadata"
    /\ IF ~HasFlag(toc_mask, "MetaData")
       THEN Panic("not implemented: no MetaData")
       ELSE IF ~HasFlag(toc_mask, "NewObjList")
            THEN Panic("not implemented: no NewObjList")
            ELSE pc' = "num_objects" /\ UNCHANGED result
    /\ UNCHANGED <<srcVars, overflow_checks, readerVars, segLocals, objLocals,
                   idxLocals, setLog>>

\* ---------------------------------------------------- read_object_metadata
\* The object declarations and the properties the file is still to hold.
DeclarationsLeft == MaxDeclarations - Cardinality(FieldsOf("object_path"))

PropertiesLeft == MaxProperties - Cardinality(FieldsOf("property"))

Seen == cursor \in DOMAIN file

\* The end of one pass of `for _ in 0..num_objects`: the next object, or
\* Ok(segment_objects).
ObjectDone ==
    /\ objects_left' = objects_left - 1
    /\ pc' = IF objects_left = 1 THEN "emit" ELSE "object_path"

\* let num_objects = reader.read_uint32()?;
\* let mut segment_objects = Vec::with_capacity(num_objects as usize);
ReadNumObjects ==
    /\ pc = "num_objects"
    /\ \/ \E n \in dom.counts :
             /\ Seen \/ n <= DeclarationsLeft
             /\ Yield("num_objects", U32Width, n)
             /\ objects_left' = n
             /\ segment_objects' = <<>>
             /\ pc' = IF n = 0 THEN "emit" ELSE "object_path"
             /\ UNCHANGED result
       \/ Truncated(U32Width) /\ UNCHANGED <<objects_left, segment_objects>>
    /\ UNCHANGED <<overflow_checks, readerVars, segLocals, object_id, properties_left,
                   idxLocals, setLog>>

\* let object_path = reader.read_string()?;
\* let object_id = self.object_paths.get_or_create_id(object_path);
ReadObjectPath ==
    /\ pc = "object_path"
    /\ \/ \E path \in dom.paths :
             /\ Yield("object_path", StringWidth(path), path)
             /\ object_id' = PathId(object_paths, path)
             /\ object_paths' = WithPath(object_paths, path)
             /\ pc' = "raw_data_index_header"
             /\ UNCHANGED result
       \/ Truncated(U32Width) /\ UNCHANGED <<object_id, object_paths>>
    /\ UNCHANGED <<overflow_checks, properties, data_indexes, prev_raw_data_indexes,
                   segments, segLocals, objects_left, segment_objects, properties_left,
                   idxLocals, setLog>>

\* let raw_data_index_header = reader.read_uint32()?; and the match on it, up
\* to the read of the raw data index or segment_objects.push(segment_object).
ReadRawDataIndexHeader ==
    /\ pc = "raw_data_index_header"
    /\ \/ \E header \in dom.headers :
             /\ Yield("raw_data_index_header", U32Width, header)
             /\ CASE header = RAW_DATA_INDEX_NO_DATA ->
                        /\ segment_objects' = Append(segment_objects, NoData(object_id))
                        /\ pc' = "num_properties"
                        /\ UNCHANGED result
                  [] header = RAW_DATA_INDEX_MATCHES_PREVIOUS ->
                        LET previous == GetRawDataIndex(prev_raw_data_indexes, object_id)
                        IN  IF previous # None
                            THEN /\ segment_objects' =
                                       Append(segment_objects, WithData(object_id, previous[1]))
                                 /\ pc' = "num_properties"
                                 /\ UNCHANGED result
                            ELSE /\ Fail([kind |-> "MissingPreviousIndex"])
                                 /\ UNCHANGED segment_objects
                  [] header = FORMAT_CHANGING_SCALER ->
                        /\ Panic("not implemented: format changing scaler")
                        /\ UNCHANGED segment_objects
                  [] header = DIGITAL_LINE_SCALER ->
                        /\ Panic("not implemented: digital line scaler")
                        /\ UNCHANGED segment_objects
                  [] OTHER ->
                        /\ pc' = "data_type"
                        /\ UNCHANGED <<result, segment_objects>>
       \/ Truncated(U32Width) /\ UNCHANGED segment_objects
    /\ UNCHANGED <<overflow_checks, readerVars, segLocals, objects_left, object_id,
                   properties_left, idxLocals, setLog>>

\* ------------------------------------------------------ read_raw_data_index
\* let data_type = reader.read_uint32()?;
\* let data_type = TdsType::from_u32(data_type)?;
ReadDataType ==
    /\ pc = "data_type"
    /\ \/ \E code \in dom.types :
             /\ Yield("data_type", U32Width, code)
             /\ IF TdsTypeFromU32(code) = None
                THEN Fail([kind |-> "UnknownType"]) /\ UNCHANGED data_type
                ELSE /\ data_type' = TdsTypeFromU32(code)[1]
                     /\ pc' = "dimension"
                     /\ UNCHANGED result
       \/ Truncated(U32Width) /\ UNCHANGED data_type
    /\ UNCHANGED <<overflow_checks, readerVars, segLocals, objLocals, dimension,
                   number_of_values, setLog>>

\* let dimension = reader.read_uint32()?;
ReadDimension ==
    /\ pc = "dimension"
    /\ \/ \E d \in dom.dims :
             /\ Yield("dimension", U32Width, d)
             /\ dimension' = d
             /\ pc' = "number_of_values"
             /\ UNCHANGED result
       \/ Truncated(U32Width) /\ UNCHANGED dimension
    /\ UNCHANGED <<overflow_checks, readerVars, segLocals, objLocals, data_type,
                   number_of_values, setLog>>

\* The inline arm without its set_raw_data_index call.
DefineShapeUncached(count, data_size) ==
    /\ data_indexes' = Append(data_indexes,
                               [number_of_values |-> count, data_type |-> data_type,
                                data_size |-> data_size])
    /\ segment_objects' =
          Append(segment_objects, [object_id |-> object_id,
                                   raw_data_index |-> <<Len(data_indexes)>>])
    /\ pc' = "num_properties"
    /\ UNCHANGED <<prev_raw_data_indexes, setLog, result>>

\* Ok(RawDataIndex {..}) of read_raw_data_index, then in read_object_metadata
\* let raw_data_index = self.data_indexes.alloc(..);
\* self.raw_data_index_cache.set_raw_data_index(object_id, raw_data_index);
\* SegmentObject::with_data(object_id, raw_data_index), pushed.
DefineShape(count, data_size) ==
    LET raw_data_index == AllocId(data_indexes)
        set == SetRawDataIndex(prev_raw_data_indexes, object_id, raw_data_index)
    IN  /\ data_indexes' = Alloc(data_indexes,
                                 [number_of_values |-> count, data_type |-> data_type,
                                  data_size |-> data_size])
        /\ IF set.panic
           THEN /\ Panic("index out of bounds")
                /\ UNCHANGED <<prev_raw_data_indexes, setLog, segment_objects>>
           ELSE /\ prev_raw_data_indexes' = set.vec
                /\ setLog' = Append(setLog, <<object_id, raw_data_index>>)
                /\ segment_objects' =
                      Append(segment_objects, WithData(object_id, raw_data_index))
                /\ pc' = "num_properties"
                /\ UNCHANGED result

\* let number_of_values = reader.read_uint64()?; the check of dimension and
\* the match on data_type.size().
ReadNumberOfValues ==
    /\ pc = "number_of_values"
    /\ \/ \E count \in dom.nvals :
             /\ Yield("number_of_values", U64Width, count)
             /\ number_of_values' = count
             /\ IF dimension # 1
                THEN /\ Fail([kind |-> "InvalidDimension", dimension |-> dimension])
                     /\ UNCHANGED <<overflow_checks, data_indexes, prev_raw_data_indexes,
                                    setLog, segment_objects>>
                ELSE IF TdsTypeSize(data_type) # None
                THEN LET type_size == TdsTypeSize(data_type)[1]
                     IN  IF DataSizeOverflows(type_size, count)
                         THEN \E build \in Builds :
                                 /\ overflow_checks' = build
                                 /\ IF build = "on"
                                    THEN /\ Panic("attempt to multiply with overflow")
                                         /\ UNCHANGED <<data_indexes, prev_raw_data_indexes,
                                                        setLog, segment_objects>>
                                    ELSE DefineShape(count, DataSize(type_size, count))
                         ELSE /\ DefineShape(count, DataSize(type_size, count))
                              /\ UNCHANGED overflow_checks
                ELSE IF data_type = "String"
                THEN /\ pc' = "string_size"
                     /\ UNCHANGED <<result, overflow_checks, data_indexes,
                                    prev_raw_data_indexes, setLog, segment_objects>>
                ELSE /\ Fail([kind |-> "UnsupportedDataType", data_type |-> data_type])
                     /\ UNCHANGED <<overflow_checks, data_indexes, prev_raw_data_indexes,
                                    setLog, segment_objects>>
       \/ /\ Truncated(U64Width)
          /\ UNCHANGED <<number_of_values, overflow_checks, data_indexes,
                         prev_raw_data_indexes, setLog, segment_objects>>
    /\ UNCHANGED <<properties, object_paths, segments, segLocals, objects_left,
                   object_id, properties_left, data_type, dimension>>

\* if data_type == TdsType::String { reader.read_uint64()? }
ReadStringSize ==
    /\ pc = "string_size"
    /\ \/ \E size \in dom.sizes :
             /\ Yield("string_size", U64Width, size)
             /\ DefineShape(number_of_values, size)
       \/ /\ Truncated(U64Width)
          /\ UNCHANGED <<data_indexes, prev_raw_data_indexes, setLog, segment_objects>>
    /\ UNCHANGED <<overflow_checks, properties, object_paths, segments, segLocals,
                   objects_left, object_id, properties_left, idxLocals>>

\* --------------------------------------------- read_object_metadata, again
\* let num_properties = reader.read_uint32()?;
ReadNumProperties ==
    /\ pc = "num_properties"
    /\ \/ \E n \in dom.propcounts :
             /\ Seen \/ n <= PropertiesLeft
             /\ Yield("num_properties", U32Width, n)
             /\ properties_left' = n
             /\ IF n = 0 THEN ObjectDone ELSE pc' = "property" /\ UNCHANGED objects_left
             /\ UNCHANGED result
       \/ Truncated(U32Width) /\ UNCHANGED <<properties_left, objects_left>>
    /\ UNCHANGED <<overflow_checks, readerVars, segLocals, segment_objects, object_id,
                   idxLocals, setLog>>

\* let property = TdmsProperty::read(reader)?;
\* self.properties.entry(object_id).or_insert_with(|| Vec::new()).push(property);
ReadProperty ==
    /\ pc = "property"
    /\ \/ \E property \in dom.props :
             /\ Yield("property", PropertyWidth(property), property)
             /\ properties' = PushProperty(properties, object_id, property)
             /\ properties_left' = properties_left - 1
             /\ IF properties_left = 1 THEN ObjectDone ELSE UNCHANGED <<pc, objects_left>>
             /\ UNCHANGED result
       \/ Truncated(U32Width) /\ UNCHANGED <<properties, properties_left, objects_left>>
    /\ UNCHANGED <<overflow_checks, object_paths, data_indexes, prev_raw_data_indexes,
                   segments, segLocals, segment_objects, object_id, idxLocals, setLog>>

\* ---------------------------------------------- read_segments, loop's end
\* self.segments.insert(0, segment) in place of push.
PushSegmentFirst(segs, segment) == <<segment>> \o segs

\* The segment written over the last one in place of push.
PushSegmentOverLast(segs, segment) ==
    IF segs = <<>> THEN <<segment>> ELSE [segs EXCEPT ![Len(segs)] = segment]

\* self.segments.push(segment);
PushSegment(segs, segment) == Append(segs, segment)

\* Ok(Some(TdmsSegment::new(raw_data_position, next_segment_position,
\* segment_objects))) and in read_segments
\* reader.seek(SeekFrom::Start(segment.next_segment_position))?;
\* self.segments.push(segment);
EmitSegment ==
    /\ pc = "emit"
    /\ cursor' = next_segment_position
    /\ segments' = PushSegment(segments,
                      NewSegment(raw_data_position, next_segment_position, segment_objects))
    /\ pc' = "read_segments"
    /\ UNCHANGED <<source, file, highWater, ended, overflow_checks, properties,
                   object_paths, data_indexes, prev_raw_data_indexes, result, segLocals,
                   objLocals, idxLocals, setLog>>

Next ==
    \/ SegmentStart
    \/ ReadMagic
    \/ ReadMagicZero
    \/ CheckHeader
    \/ ReadTocMask
    \/ ReadVersion
    \/ ReadNextSegmentOffset
    \/ ReadRawDataOffset
    \/ ComputePositions
    \/ CheckTocMask
    \/ ReadNumObjects
    \/ ReadObjectPath
    \/ ReadRawDataIndexHeader
    \/ ReadDataType
    \/ ReadDimension
    \/ ReadNumberOfValues
    \/ ReadStringSize
    \/ ReadNumProperties
    \/ ReadProperty
    \/ EmitSegment

Spec == Init /\ [][Next]_vars

\* ------------------------------------------- RawDataIndexCache on its own
\* Any sequence of set_raw_data_index calls on a new cache, with object ids
\* and raw data index ids in any order.
CacheInit ==
    /\ source = "object"
    /\ pc = "cache"
    /\ Fresh

CacheSet ==
    /\ pc = "cache"
    /\ Len(setLog) < MaxCalls
    /\ \E object \in 0 .. MaxObjectId, raw_data_index \in 0 .. MaxCalls :
          LET set == SetRawDataIndex(prev_raw_data_indexes, object, raw_data_index)
          IN  IF set.panic
              THEN /\ Panic("index out of bounds")
                   /\ UNCHANGED <<prev_raw_data_indexes, setLog>>
              ELSE /\ prev_raw_data_indexes' = set.vec
                   /\ setLog' = Append(setLog, <<object, raw_data_index>>)
                   /\ UNCHANGED <<pc, result>>
    /\ UNCHANGED <<srcVars, overflow_checks, properties, object_paths, data_indexes,
                   segments, segLocals, objLocals, idxLocals>>

CacheNext == CacheSet

SpecCache == CacheInit /\ [][CacheNext]_vars

\* ================================================================ claims
\* What the decode holds when read_metadata has returned or panicked.
Done == pc = "done"

Failed(kind) == result.kind = "Err" /\ result.error.kind = kind

\* The raw data index id of the latest set_raw_data_index call for an object.
LastSet(log, object) ==
    LET calls == {i \in 1 .. Len(log) : log[i][1] = object}
    IN  IF calls = {}
        THEN None
        ELSE Some(log[CHOOSE i \in calls : \A j \in calls : j <= i][2])

\* The field the source yielded in this step, at the offset the cursor left.
Read(what) ==
    /\ pc = what
    /\ cursor' = cursor + U32Width
    /\ cursor \in DOMAIN file'
    /\ file'[cursor].what = what

\* The field that ends at the cursor.
JustRead(what, width) ==
    /\ cursor >= width
    /\ (cursor - width) \in FieldsOf(what)

\* ---------------------------------------------------------------- C1
\* C1: a declaration with the "matches previous" header gets the raw data
\* index id of the latest inline shape of its object id, from this or an
\* earlier segment; when the object id never had an inline shape, the decode
\* fails with the missing-previous-index error and emits no segment.
C1_ReuseSemantics ==
    [][(Read("raw_data_index_header")
          /\ file'[cursor].val = RAW_DATA_INDEX_MATCHES_PREVIOUS)
       => IF LastSet(setLog, object_id) # None
          THEN /\ segment_objects' =
                     Append(segment_objects,
                            [object_id |-> object_id,
                             raw_data_index |-> LastSet(setLog, object_id)])
               /\ result' = Pending
               /\ pc' = "num_properties"
          ELSE /\ pc' = "done"
               /\ result'.kind = "Err"
               /\ result'.error.kind = "MissingPreviousIndex"
               /\ "reader" \notin DOMAIN result'
               /\ segments' = segments]_vars

\* A "matches previous" declaration in a later segment of an object whose
\* shape was defined twice: it carries the second id.
C1_Witness ==
    /\ pc = "num_properties"
    /\ JustRead("raw_data_index_header", U32Width)
    /\ file[cursor - U32Width].val = RAW_DATA_INDEX_MATCHES_PREVIOUS
    /\ Len(segments) >= 1
    /\ segment_objects # <<>>
    /\ \E i, j \in DOMAIN setLog :
          /\ i < j
          /\ setLog[i][1] = object_id
          /\ setLog[j][1] = object_id
          /\ setLog[i][2] # setLog[j][2]
          /\ Last(segment_objects) = WithData(object_id, setLog[j][2])

\* ---------------------------------------------------------------- C2
\* The segments of the file, by the offset of their magic, and the k-th
\* of them in file order.
SegmentStarts == FieldsOf("magic")

NthStart(k) ==
    CHOOSE p \in SegmentStarts : Cardinality({q \in SegmentStarts : q < p}) = k - 1

\* The offsets of the fields of the lead-in of the segment at p.
TocAt(p) == p + 4

NextOffsetAt(p) == p + 12

RawOffsetAt(p) == p + 20

CountAt(p) == p + 28

\* Where the lead-in of the segment at p says the next segment starts.
NextOf(p) == p + lead_in_length + file[NextOffsetAt(p)].val

\* The path of the declaration whose raw data index header is at offset a.
PathOf(a) ==
    LET c == CHOOSE c \in FieldsOf("object_path") : c + StringWidth(file[c].val) = a
    IN  file[c].val

Sentinels ==
    {RAW_DATA_INDEX_NO_DATA, RAW_DATA_INDEX_MATCHES_PREVIOUS,
     FORMAT_CHANGING_SCALER, DIGITAL_LINE_SCALER}

WellFormedSegment(p) ==
    /\ file[p].val = expected_header
    /\ TocAt(p) \in FieldsOf("toc_mask")
    /\ NextOffsetAt(p) \in FieldsOf("next_segment_offset")
    /\ RawOffsetAt(p) \in FieldsOf("raw_data_offset")
    /\ CountAt(p) \in FieldsOf("num_objects")
    /\ MetaNew \subseteq file[TocAt(p)].val
    /\ file[RawOffsetAt(p)].val <= file[NextOffsetAt(p)].val
    /\ NextOf(p) < U64Mod
    /\ NextOf(p) \in SegmentStarts \/ NextOf(p) >= highWater

\* The file seen so far is a sequence of consecutive segments, each with the
\* MetaData and NewObjList flags and metadata the decoder supports, up to an
\* end at a segment boundary.
WellFormed ==
    /\ ended # "inside a segment"
    /\ \A p \in SegmentStarts : WellFormedSegment(p)
    /\ \A a \in FieldsOf("raw_data_index_header") :
          /\ file[a].val \notin {FORMAT_CHANGING_SCALER, DIGITAL_LINE_SCALER}
          /\ file[a].val = RAW_DATA_INDEX_MATCHES_PREVIOUS
                => \E b \in FieldsOf("raw_data_index_header") :
                      /\ b < a
                      /\ file[b].val \notin Sentinels
                      /\ PathOf(b) = PathOf(a)
    /\ \A a \in FieldsOf("data_type") : file[a].val \in {3, 10, 32}
    /\ \A a \in FieldsOf("dimension") : file[a].val = 1
    /\ \A a \in FieldsOf("number_of_values") :
          LET type_size == TdsTypeSize(TdsTypeFromU32(file[a - 2 * U32Width].val)[1])
          IN  type_size # None => type_size[1] * file[a].val < U64Mod

\* C2: on a well-formed source of N consecutive segments read_metadata
\* succeeds with exactly N segment records, the k-th of which has the
\* positions and the object count of the k-th segment of the file.
C2_OneRecordPerSegment ==
    (Done /\ WellFormed)
    => /\ result.kind = "Ok"
       /\ Len(result.reader.segments) = Cardinality(SegmentStarts)
       /\ \A k \in 1 .. Len(result.reader.segments) :
             LET p == NthStart(k)
                 segment == result.reader.segments[k]
             IN  /\ segment.next_segment_position = NextOf(p)
                 /\ segment.data_position = p + lead_in_length + file[RawOffsetAt(p)].val
                 /\ Len(segment.objects) = file[CountAt(p)].val

\* A well-formed file of three segments, with object declarations, decoded.
C2_Witness ==
    /\ Done
    /\ WellFormed
    /\ Cardinality(SegmentStarts) = 3
    /\ result.kind = "Ok"
    /\ Len(result.reader.segments[1].objects) = 2
    /\ Len(result.reader.segments[3].objects) = 1

\* ---------------------------------------------------------------- C3
\* C3: the decode ends gracefully only when the source yields no byte at the
\* very start of a segment attempt; a source that ends after 1, 2 or 3 bytes
\* of the magic gives a truncation error.
C3_TruncatedMagicIsAnError ==
    (Done /\ ended # "no" /\ Len(header_bytes) < 4)
    => IF header_bytes = <<>>
       THEN result.kind = "Ok"
       ELSE Failed("TruncatedInput")

\* ---------------------------------------------------------------- C4
\* C4: an inline shape whose dimension is not 1 fails with the invalid
\* dimension error with the cursor no further than the end of the dimension
\* field: number_of_values has not been consumed.
C4_DimensionGuard ==
    Failed("InvalidDimension")
    => \E at \in FieldsOf("dimension") :
          /\ file[at].val # 1
          /\ cursor <= at + U32Width

\* ---------------------------------------------------------------- C5
\* C5: a segment whose TOC mask lacks the MetaData flag or the NewObjList
\* flag ends the decode in a NotImplemented error returned to the caller,
\* not in a panic.
C5_MissingFlagIsAnError ==
    (/\ Done
     /\ cursor = position + lead_in_length
     /\ JustRead("raw_data_offset", U64Width)
     /\ ~PositionOverflows(position, next_segment_offset)
     /\ ~PositionOverflows(position, raw_data_offset)
     /\ ~(MetaNew \subseteq toc_mask))
    => Failed("NotImplemented")

\* ---------------------------------------------------------------- C6
\* C6: an object whose raw data index header is one of the two scaler
\* sentinels ends the decode in a NotImplemented error returned to the
\* caller, not in a panic.
C6_ScalerIsAnError ==
    (/\ Done
     /\ JustRead("raw_data_index_header", U32Width)
     /\ file[cursor - U32Width].val \in {FORMAT_CHANGING_SCALER, DIGITAL_LINE_SCALER})
    => Failed("NotImplemented")

\* ---------------------------------------------------------------- C7
\* C7: a failing step (bad magic, short read inside the lead-in or the
\* metadata, unknown type, bad dimension, missing previous index) makes
\* read_metadata return the error and nothing else: no TdmsReader, so no
\* segment decoded before.  A source that ends after a valid magic, inside
\* the lead-in, gives a truncation error.
C7_AllOrNothing ==
    /\ result.kind = "Err" => DOMAIN result = {"kind", "error"}
    /\ (Done /\ Len(header_bytes) = 4 /\ header_bytes # expected_header)
          => Failed("InvalidSegmentHeader")
    /\ (Done /\ header_bytes = expected_header /\ ended # "no")
          => Failed("TruncatedInput")
    /\ (Done /\ ended = "no" /\ JustRead("data_type", U32Width)
             /\ TdsTypeFromU32(file[cursor - U32Width].val) = None)
          => Failed("UnknownType")
    /\ (Done /\ ended = "no" /\ JustRead("number_of_values", U64Width)
             /\ file[cursor - U64Width - U32Width].val # 1)
          => Failed("InvalidDimension")
    /\ (Done /\ ended = "no" /\ JustRead("raw_data_index_header", U32Width)
             /\ file[cursor - U32Width].val = RAW_DATA_INDEX_MATCHES_PREVIOUS)
          => Failed("MissingPreviousIndex")

\* The source ends inside the lead-in of its second segment.
C7_Witness ==
    /\ Done
    /\ Len(segments) >= 1
    /\ segments[1].objects # <<>>
    /\ header_bytes = expected_header
    /\ ended = "inside a segment"
    /\ cursor = position + 12
    /\ result = [kind |-> "Err", error |-> [kind |-> "TruncatedInput"]]

\* ---------------------------------------------------------------- C8
\* C8: whatever the object ids of a sequence of set_raw_data_index calls, no
\* call fails with an index out of range, and get_raw_data_index gives for
\* every object id the id of its latest set, and None when it was never set,
\* inside the padded range and beyond the backing store.
C8_CacheContract ==
    /\ result.kind # "Panic"
    /\ \A object \in 0 .. (MaxObjectId + 1) :
          GetRawDataIndex(prev_raw_data_indexes, object) = LastSet(setLog, object)

\* An id set past an unseen one, then set again: the padding is None, the
\* entry the later id.
C8_Witness ==
    /\ pc = "cache"
    /\ Len(setLog) = 3
    /\ setLog[1][1] = 2
    /\ setLog[2][1] = 0
    /\ setLog[3][1] = 2
    /\ setLog[1][2] # setLog[3][2]
    /\ Len(prev_raw_data_indexes) = 3
    /\ GetRawDataIndex(prev_raw_data_indexes, 1) = None
    /\ GetRawDataIndex(prev_raw_data_indexes, 2) = Some(setLog[3][2])
    /\ GetRawDataIndex(prev_raw_data_indexes, 3) = None

\* ---------------------------------------------------------------- C9
\* C9: the data_size of every raw data index of a fixed-width type is the
\* product of the width and number_of_values, not the product wrapped to
\* 64 bits.
C9_ShapeSizeLaw ==
    \A i \in DOMAIN data_indexes :
       LET index == data_indexes[i]
       IN  TdsTypeSize(index.data_type) # None
              => index.data_size = TdsTypeSize(index.data_type)[1] * index.number_of_values

\* ---------------------------------------------------------------- C10
\* C10: the decode terminates, because every emitted segment moves the
\* cursor strictly forward from the position the segment started at.
C10_EmitMovesForward == [][pc = "emit" => cursor' > position]_vars

\* ---------------------------------------------------------------- C11
\* C11: the property list of an object only grows at its end: a step that
\* decodes a property appends that property to the list of the object being
\* declared, whatever its name, and leaves every other list as it was; no
\* other step changes any list.
C11_PropertiesAppendOnly ==
    [][IF pc = "property" /\ cursor' # cursor
       THEN /\ DOMAIN properties' = DOMAIN properties \cup {object_id}
            /\ properties'[object_id] =
                  Append(IF object_id \in DOMAIN properties
                         THEN properties[object_id]
                         ELSE <<>>,
                         file'[cursor].val)
            /\ \A o \in DOMAIN properties \ {object_id} : properties'[o] = properties[o]
       ELSE properties' = properties]_vars

\* An object declared in two segments with a property of the same name in
\* each: both are kept, in stream order.
C11_Witness ==
    /\ Len(segments) >= 1
    /\ JustRead("property", PropertyWidth([name |-> "p", value |-> 1]))
    /\ object_id \in DOMAIN properties
    /\ Len(properties[object_id]) = 2
    /\ properties[object_id][1].name = properties[object_id][2].name
    /\ Cardinality(FieldsOf("property")) = 2

\* ---------------------------------------------------------------- C12
\* C12: a step of the decode either leaves the list of segments as it was or
\* appends one segment at its end, and it appends only when it emits; the
\* segments pushed before keep their positions and objects.
C12_SegmentsAppendOnly ==
    [][IF pc = "emit"
       THEN /\ Len(segments') = Len(segments) + 1
            /\ SubSeq(segments', 1, Len(segments)) = segments
       ELSE segments' = segments]_vars

\* Three segments pushed, of different positions.
C12_Witness ==
    /\ pc = "read_segments"
    /\ Len(segments) = 3
    /\ segments[1].next_segment_position < segments[2].next_segment_position
    /\ segments[2].next_segment_position < segments[3].next_segment_position
    /\ segments[1].objects # segments[3].objects

\* ---------------------------------------------------------------- C13
\* C13: four magic bytes that differ from 54 44 53 6D end the decode with the
\* invalid segment header error, which reports the offset the segment attempt
\* started at; nothing more is read and no segment is emitted.
C13_BadMagicIsFatal ==
    [][/\ (pc = "magic" /\ Len(header_bytes) = 4 /\ header_bytes # expected_header)
          => /\ pc' = "done"
             /\ result'.kind = "Err"
             /\ result'.error.kind = "InvalidSegmentHeader"
             /\ result'.error.position = cursor - 4
             /\ result'.error.position =
                   IF segments = <<>> THEN 0 ELSE Last(segments).next_segment_position
             /\ "reader" \notin DOMAIN result'
             /\ cursor' = cursor
             /\ file' = file
             /\ segments' = segments
       /\ pc = "done" => FALSE]_vars

\* A bad magic at the start of the second segment.
C13_Witness ==
    /\ Done
    /\ Failed("InvalidSegmentHeader")
    /\ Len(segments) = 1
    /\ result.error.position = segments[1].next_segment_position
    /\ result.error.position > 0
    /\ cursor = result.error.position + 4

\* ---------------------------------------------------------------- C14
\* C14: no segment is emitted for a TOC mask with the big-endian flag: the
\* decode fails with a NotImplemented error before it decodes the lead-in as
\* little-endian.
C14_BigEndianIsAnError ==
    pc = "emit" => ~HasFlag(file[TocAt(position)].val, "BigEndian")

\* ---------------------------------------------------------------- C15
\* C15: the segment emitted for the magic at offset p has next_segment_position
\* p + 28 + next_segment_offset and data_position p + 28 + raw_data_offset,
\* and the decoder goes on at next_segment_position, past the lead-in of the
\* segment it emitted.
C15_PositionBookkeeping ==
    [][/\ pc = "emit"
          => LET segment == Last(segments')
             IN  /\ segment.next_segment_position =
                       position + 28 + file[NextOffsetAt(position)].val
                 /\ segment.data_position =
                       position + 28 + file[RawOffsetAt(position)].val
                 /\ cursor' = segment.next_segment_position
                 /\ cursor' >= position + 28
       /\ (pc = "read_segments" /\ segments # <<>>)
          => position' = Last(segments).next_segment_position]_vars

\* ---------------------------------------------------------------- C16
\* An inline raw data index has been decoded: read_raw_data_index returned Ok.
ShapeDecoded == pc \in {"number_of_values", "string_size"} /\ pc' = "num_properties"

\* C16: a decoded inline shape is one new record at the end of the table; its
\* id becomes the cache entry of the object, over any earlier one, and the
\* raw_data_index of the SegmentObject of this declaration; the records, the
\* cache entries of other objects and the segments before are as they were.
C16_InlineShapeStep ==
    [][ShapeDecoded
       => LET id == Len(data_indexes)
          IN  /\ Len(data_indexes') = id + 1
              /\ SubSeq(data_indexes', 1, id) = data_indexes
              /\ data_indexes'[id + 1].number_of_values =
                    IF pc = "string_size"
                    THEN file[cursor - U64Width].val
                    ELSE file'[cursor].val
              /\ GetRawDataIndex(prev_raw_data_indexes', object_id) = Some(id)
              /\ \A o \in 0 .. (Len(object_paths) + 1) \ {object_id} :
                    GetRawDataIndex(prev_raw_data_indexes', o)
                       = GetRawDataIndex(prev_raw_data_indexes, o)
              /\ segment_objects' =
                    Append(segment_objects,
                           [object_id |-> object_id, raw_data_index |-> Some(id)])
              /\ segments' = segments]_vars

\* The second shape of an object, in a later segment: the segment before
\* still names the first record, which is as it was.
C16_Witness ==
    /\ pc = "num_properties"
    /\ Len(data_indexes) = 2
    /\ Len(segments) = 1
    /\ segments[1].objects = <<WithData(object_id, 0)>>
    /\ segment_objects = <<WithData(object_id, 1)>>
    /\ GetRawDataIndex(prev_raw_data_indexes, object_id) = Some(1)
    /\ JustRead("number_of_values", U64Width)

\* ---------------------------------------------------------------- C17
\* C17: a declaration with the no-data header gets a SegmentObject without a
\* raw data index and leaves the cache and the table as they were; a later
\* "matches previous" of the object gets the id of its shape from before.
C17_NoDataFrame ==
    [][(Read("raw_data_index_header")
          /\ file'[cursor].val = RAW_DATA_INDEX_NO_DATA)
       => /\ segment_objects' =
                Append(segment_objects, [object_id |-> object_id, raw_data_index |-> None])
          /\ prev_raw_data_indexes' = prev_raw_data_indexes
          /\ data_indexes' = data_indexes
          /\ pc' = "num_properties"]_vars

\* An object with an inline shape in segment 1, no data in segment 2 and
\* "matches previous" in segment 3: segment 3 names the record of segment 1.
C17_Witness ==
    /\ pc = "read_segments"
    /\ Len(segments) = 3
    /\ Len(data_indexes) = 1
    /\ \E object \in {0} :
          /\ segments[1].objects = <<WithData(object, 0)>>
          /\ segments[2].objects = <<NoData(object)>>
          /\ segments[3].objects = <<WithData(object, 0)>>
    /\ \E a \in FieldsOf("raw_data_index_header") :
          file[a].val = RAW_DATA_INDEX_MATCHES_PREVIOUS
    /\ \E a \in FieldsOf("raw_data_index_header") :
          file[a].val = RAW_DATA_INDEX_NO_DATA

\* ---------------------------------------------------------------- C18
\* The SegmentObjects of the segments pushed and of the segment in progress.
HeldObjects ==
    UNION {{segments[k].objects[i] : i \in 1 .. Len(segments[k].objects)} :
              k \in 1 .. Len(segments)}
    \cup {segment_objects[i] : i \in 1 .. Len(segment_objects)}

\* C18: every raw data index id held by a SegmentObject or by the cache names
\* a record of the table, and the cache entry of an object id is None exactly
\* when no inline shape has been decoded for it.
C18_ReferentialIntegrity ==
    /\ \A object \in HeldObjects :
          object.raw_data_index # None
             => object.raw_data_index[1] \in 0 .. (Len(data_indexes) - 1)
    /\ \A i \in 1 .. Len(prev_raw_data_indexes) :
          prev_raw_data_indexes[i] # None
             => prev_raw_data_indexes[i][1] \in 0 .. (Len(data_indexes) - 1)
    /\ \A o \in 0 .. Len(object_paths) :
          (GetRawDataIndex(prev_raw_data_indexes, o) = None)
             <=> (\A i \in 1 .. Len(setLog) : setLog[i][1] # o)

\* Two objects, the second with a shape, the first without: a padded cache
\* and a pushed segment that names the record.
C18_Witness ==
    /\ Len(segments) >= 1
    /\ Len(prev_raw_data_indexes) = 2
    /\ prev_raw_data_indexes[1] = None
    /\ prev_raw_data_indexes[2] = Some(0)
    /\ \E k \in 1 .. Len(segments) : WithData(1, 0) \in
          {segments[k].objects[i] : i \in 1 .. Len(segments[k].objects)}
    /\ Len(data_indexes) = 1

\* ---------------------------------------------------------------- C19
\* The raw data index ids held by SegmentObjects.
ReferencedIds ==
    {object.raw_data_index[1] : object \in {o \in HeldObjects : o.raw_data_index # None}}

\* C19: the table has one record per inline shape decoded so far: a step
\* adds a record, and one only, exactly when read_raw_data_index returns Ok;
\* "matches previous" and no-data declarations and failed inline definitions
\* add none.
C19_OneRecordPerShape ==
    [][/\ Len(data_indexes') = Len(data_indexes) + (IF ShapeDecoded THEN 1 ELSE 0)
       /\ Len(data_indexes') = Len(setLog')
       /\ ReferencedIds' = 0 .. (Len(data_indexes') - 1)]_vars

\* A second inline definition that fails on its dimension, after a first that
\* succeeded: one record.
C19_Witness ==
    /\ Done
    /\ Failed("InvalidDimension")
    /\ Len(data_indexes) = 1
    /\ Cardinality(FieldsOf("dimension")) = 2
    /\ Len(segments) = 1

\* ---------------------------------------------------------------- C20
\* The object declarations of the segment at p, by the offset of their path,
\* and the k-th of them.
DeclarationsOf(p) ==
    {c \in FieldsOf("object_path") :
        c > p /\ ~\E q \in SegmentStarts : p < q /\ q < c}

NthDeclaration(p, k) ==
    CHOOSE c \in DeclarationsOf(p) :
        Cardinality({d \in DeclarationsOf(p) : d < c}) = k - 1

\* The raw data index header of the declaration whose path is at offset c.
HeaderOf(c) == file[c + StringWidth(file[c].val)].val

\* C20: an emitted segment has one SegmentObject per declaration of its
\* metadata, as many as the object count, in declaration order, each with the
\* id of its path, also when a path is declared again; a "matches previous"
\* declaration gets the shape of the latest inline declaration of its path
\* before it in the segment.
C20_ObjectListShape ==
    [][pc = "emit"
       => LET objects == Last(segments').objects
              p == position
          IN  /\ Len(objects) = file[CountAt(p)].val
              /\ Cardinality(DeclarationsOf(p)) = Len(objects)
              /\ \A k \in 1 .. Len(objects) :
                    LET c == NthDeclaration(p, k)
                    IN  /\ objects[k].object_id = PathId(object_paths, file[c].val)
                        /\ (HeaderOf(c) = RAW_DATA_INDEX_NO_DATA)
                              <=> (objects[k].raw_data_index = None)
                        /\ HeaderOf(c) = RAW_DATA_INDEX_MATCHES_PREVIOUS
                              => \A j \in 1 .. (k - 1) :
                                    (/\ HeaderOf(NthDeclaration(p, j)) \notin Sentinels
                                     /\ file[NthDeclaration(p, j)].val = file[c].val
                                     /\ \A l \in (j + 1) .. (k - 1) :
                                           \/ file[NthDeclaration(p, l)].val # file[c].val
                                           \/ HeaderOf(NthDeclaration(p, l)) \in Sentinels)
                                    => objects[k].raw_data_index = objects[j].raw_data_index]_vars

\* A segment that declares a path with an inline shape, then again with
\* "matches previous", then another path without data.
C20_Witness ==
    /\ pc = "read_segments"
    /\ Len(segments) = 1
    /\ segments[1].objects = <<WithData(0, 0), WithData(0, 0), NoData(1)>>
    /\ Cardinality(FieldsOf("data_type")) = 1
    /\ Cardinality(FieldsOf("object_path")) = 3

====
